---- MODULE Spec2Model ----
(***************************************************************************)
(* rypak: lossless file size reduction.  The model follows repack_files    *)
(* (src/rypak.py) statement by statement over a small file system: one     *)
(* directory whose file names are <stem><_bak...><ext>.                    *)
(***************************************************************************)
EXTENDS Integers, Sequences, FiniteSets, TLC

\* ------------------------------------------------------------------ bounds
\* Number of files in the directory before the run.
MaxFiles == 2
\* Largest size, in bytes, of a file before the run.  A strategy's output is
\* drawn from 0 .. MaxSize + 1, so it can be smaller, equal or larger.
MaxSize == 2
\* Largest number of "_bak" suffixes in the name of a pre-run file.
MaxBak == 1
\* Largest number of members of a TAR archive.
MaxMembers == 1

\* ------------------------------------------------------------ file names
\* A file name is <stem> followed by n copies of "_bak" and the extension;
\* osp.splitext(name) is (<stem> + n * "_bak", ext).
Exts == {".zip", ".docx", ".DOCX", ".png", ".jpg", ".h5", ".tar", ".bmp", ".txt"}

InitPaths == [n : 0 .. MaxBak, ext : Exts]

\* str.lower() on the extensions in use.
Lower(e) == IF e = ".DOCX" THEN ".docx" ELSE e

\* line 209: backup_source = basename + '_bak' + ext
BackupPath(p) == [n |-> p.n + 1, ext |-> p.ext]

\* line 172: zipfilename = osp.splitext(tarfilename)[0] + '.zip'
ZipName(p) == [n |-> p.n, ext |-> ".zip"]

\* ------------------------------------------------- module-level constants
utilities == {"7z", "optipng", "jpegtran", "h5repack"}

OOXML_KEYS == {".docx", ".pptx", ".xlsx"}

OOXML_MEDIA == [e \in OOXML_KEYS |->
                  CASE e = ".docx" -> "word/media"
                    [] e = ".pptx" -> "ppt/media"
                    [] e = ".xlsx" -> "xl/media"]

ZIP_TYPE == OOXML_KEYS \cup {".zip"}

JPG_TYPE == {".jpg", ".jpeg", ".jpe"}

OPTIPNG_ALT_TYPE == {".bmp", ".gif", ".tif", ".tiff"}

ACCEPTED_TYPES(util) ==
    ZIP_TYPE \cup {".tar"}
      \cup (IF "optipng" \in util THEN {".png"} \cup OPTIPNG_ALT_TYPE ELSE {})
      \cup (IF "jpegtran" \in util THEN JPG_TYPE ELSE {})
      \cup (IF "h5repack" \in util THEN {".h5"} ELSE {})

\* ------------------------------------------------------------ file system
\* A file.  Its bytes are described by where and when they were first written
\* (origin, gen: 0 before the run, 1 by the run), their size and, for an
\* archive, its members.  ino tells the file objects that existed before the
\* run (0) from those the run creates (1); mtime is the stat metadata (0
\* before the run, 1 during it).
MemberKinds == {"file", "dir", "link"}

RECURSIVE SeqsUpTo(_, _)
SeqsUpTo(S, k) ==
    IF k = 0 THEN {<<>>}
    ELSE LET prev == SeqsUpTo(S, k - 1)
         IN  prev \cup {Append(s, x) : s \in prev, x \in S}

RECURSIVE SubsetsUpTo(_, _)
SubsetsUpTo(S, k) ==
    IF k = 0 THEN {{}}
    ELSE LET prev == SubsetsUpTo(S, k - 1)
         IN  prev \cup {T \cup {x} : T \in prev, x \in S}

\* The orderings of the subsets of S: what glob() may return.
RECURSIVE Orderings(_)
Orderings(S) ==
    {<<>>} \cup UNION {{<<x>> \o s : s \in Orderings(S \ {x})} : x \in S}

PreRunFile(p, sz, mem) ==
    [origin |-> p, gen |-> 0, size |-> sz, members |-> mem, ino |-> 0,
     mtime |-> 0]

NewFile(p, sz, mem) ==
    [origin |-> p, gen |-> 1, size |-> sz, members |-> mem, ino |-> 1,
     mtime |-> 1]

\* A new file with the bytes of f.
CopyOf(f) == [f EXCEPT !.ino = 1, !.mtime = 1]

\* The bytes of a file, without its metadata.
Data(f) == [origin |-> f.origin, gen |-> f.gen, size |-> f.size,
            members |-> f.members]

Exists(f, p) == p \in DOMAIN f

\* os.remove(p)
Remove(f, p) == [x \in DOMAIN f \ {p} |-> f[x]]

\* a writer creating or truncating p
WriteFile(f, p, file) ==
    [x \in DOMAIN f \cup {p} |-> IF x = p THEN file ELSE f[x]]

\* A rename that leaves the old name in place (a copy).
RenameFile_copy(f, a, b) ==
    [x \in DOMAIN f \cup {b} |-> IF x = b THEN f[a] ELSE f[x]]

\* os.rename(a, b) where it succeeds: b now names a's file
RenameFile(f, a, b) ==
    [x \in (DOMAIN f \ {a}) \cup {b} |-> IF x = b THEN f[a] ELSE f[x]]

\* shutil.copystat(a, b)
CopyStat(f, a, b) == [f EXCEPT ![b].mtime = f[a].mtime]


\* ------------------------------------------------------------------ state
VARIABLES
    fs,          \* the directory: file name -> file
    fs0,         \* the directory before the run
    UTIL_EXE,    \* the helper executables shutil.which found (lines 24-29)
    matches,     \* glob(filenames), in the order the loop visits it
    idx,         \* position of the for loop in matches
    keep,        \* repack_files' keep argument
    verbose,     \* repack_files' verbose argument
    preserve,    \* repack_files' preserve argument: main() always passes
                 \* True (lines 259-261: store_true with default=True)
    pc,          \* the statement repack_files is at
    sourcefile,  \* the loop variable: <<>> while unbound, else <<name>>
    original,    \* <<the file os.stat(sourcefile) saw on line 198>>
    size1,
    size2,
    tot1,
    tot2,
    decided,     \* sourcefile's backup/compare step: "none" before line 210,
                 \* "pending" from it on, then the branch of lines 231-237
    mi,          \* tar2zip: position in tf.getmembers(), 0 outside tar2zip
    tempdirs,    \* number of tempfile.mkdtemp() directories on disk
    stdout,      \* the summary lines written
    procs,       \* the external processes started, in order
    exc          \* the exception in flight or that ended the run

vars == <<fs, fs0, UTIL_EXE, matches, idx, keep, verbose, preserve, pc,
          sourcefile, original, size1, size2, tot1, tot2, decided, mi,
          tempdirs, stdout, procs, exc>>

Src == sourcefile[1]

\* The directories a run may start from: at most MaxFiles files, each of
\* 1 .. MaxSize bytes (an empty file is no archive, image or HDF5 file: the
\* strategies fail on it as on any other malformed file); a .tar file is an archive of at most MaxMembers members.
IsTar(p) == Lower(p.ext) = ".tar"

Directories ==
    UNION {
      UNION {
        { [p \in dir |-> PreRunFile(p, sz[p], IF IsTar(p) THEN mem[p] ELSE <<>>)]
            : mem \in [{p \in dir : IsTar(p)} -> SeqsUpTo(MemberKinds, MaxMembers)] }
        : sz \in [dir -> 1 .. MaxSize] }
      : dir \in SubsetsUpTo(InitPaths, MaxFiles) }

Init ==
    /\ fs \in Directories
    /\ fs0 = fs
    /\ UTIL_EXE \in SUBSET utilities
    /\ matches \in Orderings(DOMAIN fs)
    /\ idx = 1
    /\ keep \in BOOLEAN
    /\ verbose \in BOOLEAN
    /\ preserve = TRUE
    /\ pc = "loop"
    /\ sourcefile = <<>>
    /\ original = <<>>
    /\ size1 = 0
    /\ size2 = 0
    /\ tot1 = 0
    /\ tot2 = 0
    /\ decided = "none"
    /\ mi = 0
    /\ tempdirs = 0
    /\ stdout = <<>>
    /\ procs = <<>>
    /\ exc = "none"

\* An exception leaves repack_files: nothing in the program catches one.
Raise(e) == pc' = "raised" /\ exc' = e

\* print_oneline_summary: the line written; line 62 divides by size1.
SummaryRaises(s1) == s1 = 0

SummaryLine(label, s1, s2) == [label |-> label, size1 |-> s1, size2 |-> s2]

\* The sizes an external tool or archive writer may leave at its output: an
\* empty or cut-off file (0), or any size up to one more than the largest
\* original.
OutSizes == 0 .. MaxSize + 1

\* What a strategy that reads src may write at p: a file of some size, or
\* one with the very bytes of src (nothing to gain).
Written(p, src) == {NewFile(p, sz, <<>>) : sz \in OutSizes} \cup {CopyOf(src)}

\* ---------------------------------------------------------- batch driver
\* lines 194-198 and the dispatch of lines 199, 202, 209
NextFile ==
    /\ pc = "loop"
    /\ idx <= Len(matches)
    /\ LET p == matches[idx] IN
       /\ sourcefile' = <<p>>
       /\ idx' = idx + 1
       /\ decided' = "none"
       /\ mi' = 0
       /\ IF Lower(p.ext) \notin ACCEPTED_TYPES(UTIL_EXE)
          THEN /\ pc' = "loop"
               /\ UNCHANGED <<original, size1, exc>>
          ELSE IF ~Exists(fs, p)
          THEN /\ Raise("FileNotFoundError")
               /\ UNCHANGED <<original, size1>>
          ELSE /\ original' = <<fs[p]>>
               /\ size1' = fs[p].size
               /\ pc' = IF Lower(p.ext) = ".tar" THEN "tar2zip"
                        ELSE IF Lower(p.ext) \in OPTIPNG_ALT_TYPE THEN "alt"
                        ELSE "rename"
               /\ exc' = exc
    /\ UNCHANGED <<fs, fs0, UTIL_EXE, matches, keep, verbose, preserve, size2,
                   tot1, tot2, tempdirs, stdout, procs>>

\* line 194: the loop is exhausted
LoopEnd ==
    /\ pc = "loop"
    /\ idx > Len(matches)
    /\ pc' = "summary"
    /\ UNCHANGED <<fs, fs0, UTIL_EXE, matches, idx, keep, verbose, preserve,
                   sourcefile, original, size1, size2, tot1, tot2, decided, mi,
                   tempdirs, stdout, procs, exc>>


\* What a run never changes: its arguments, the glob result, the utility
\* table and the record of the directory before the run.
config == <<fs0, UTIL_EXE, matches, keep, verbose, preserve>>

dest == Src

backup_source == BackupPath(Src)

\* ------------------------------------------------------ TAR to ZIP (169-186)
\* lines 179-180: tarfile opens the source (a well-formed archive here) and
\* the archive writer creates (or truncates) <basename>.zip
tar2zip_open ==
    /\ pc = "tar2zip"
    /\ fs' = WriteFile(fs, ZipName(Src), NewFile(ZipName(Src), 1, <<>>))
    /\ mi' = 1
    /\ pc' = "tar_member"
    /\ UNCHANGED <<config, idx, sourcefile, original, size1, size2, tot1, tot2,
                   decided, tempdirs, stdout, procs, exc>>

\* tf.extractfile(mem): a file object for a regular file, None for a member
\* that is neither a regular file nor a link, and for a link the file object
\* of its target or KeyError when the archive does not hold the target.
ExtractFile(kind) ==
    CASE kind = "file" -> {"data"}
      [] kind = "dir"  -> {"None"}
      [] kind = "link" -> {"data", "KeyError"}

\* lines 181-184: one member; None has no read() (AttributeError).  The with
\* statements close the ZIP with the entries written so far.
tar2zip_member ==
    /\ pc = "tar_member"
    /\ mi <= Len(fs[Src].members)
    /\ LET z == ZipName(Src)
           kind == fs[Src].members[mi]
       IN  \E r \in ExtractFile(kind) :
             IF r = "data"
             THEN /\ fs' = [fs EXCEPT ![z].members = Append(@, kind),
                                      ![z].size = @ + 1]
                  /\ mi' = mi + 1
                  /\ UNCHANGED <<pc, exc>>
             ELSE /\ Raise(IF r = "None" THEN "AttributeError" ELSE r)
                  /\ UNCHANGED <<fs, mi>>
    /\ UNCHANGED <<config, idx, sourcefile, original, size1, size2, tot1, tot2,
                   decided, tempdirs, stdout, procs>>

\* line 186, then the continue of line 201
tar2zip_close ==
    /\ pc = "tar_member"
    /\ mi > Len(fs[Src].members)
    /\ fs' = CopyStat(fs, Src, ZipName(Src))
    /\ pc' = "loop"
    /\ UNCHANGED <<config, idx, sourcefile, original, size1, size2, tot1, tot2,
                   decided, mi, tempdirs, stdout, procs, exc>>

\* --------------------------------------------- BMP / GIF / TIFF (202-207)
\* line 206 runs subprocess.run(filenames): the program to start is the glob
\* pattern itself, not args.  No executable has that name (the pattern has to
\* match a .bmp/.gif/.tif file), so the call raises OSError
\* (FileNotFoundError, PermissionError or "Exec format error").
alt_type ==
    /\ pc = "alt"
    /\ IF "optipng" \in UTIL_EXE
       THEN /\ procs' = Append(procs, [exe |-> "filenames", src |-> <<>>,
                                        dst |-> <<>>])
            /\ Raise("OSError")
       ELSE /\ pc' = "loop"
            /\ UNCHANGED <<procs, exc>>
    /\ UNCHANGED <<config, fs, idx, sourcefile, original, size1, size2, tot1,
                   tot2, decided, mi, tempdirs, stdout>>

\* ------------------------------------------------- backup (209-211, 213-223)
\* The strategy lines 214-223 dispatch to, by the lower-cased extension.
Strategy(e) ==
    IF e \in DOMAIN OOXML_MEDIA THEN "repack_ooxml"
    ELSE IF e \in ZIP_TYPE THEN "repack_zip"
    ELSE IF e = ".png" THEN "optimize_png"
    ELSE IF e \in JPG_TYPE THEN "optimize_jpg"
    ELSE IF e = ".h5" THEN "h5repack"
    ELSE "stat_dest"

\* os.rename onto an existing name: replaces it silently on POSIX, raises
\* FileExistsError on Windows.
RenameOutcomes(f, b) == IF Exists(f, b) THEN {"replace", "FileExistsError"}
                        ELSE {"replace"}

\* line 210: os.rename(sourcefile, backup_source)
rename_to_backup ==
    /\ pc = "rename"
    /\ \E r \in RenameOutcomes(fs, backup_source) :
         IF r = "replace"
         THEN /\ fs' = RenameFile(fs, Src, backup_source)
              /\ decided' = "pending"
              /\ pc' = Strategy(Lower(Src.ext))
              /\ exc' = exc
         ELSE /\ Raise(r)
              /\ UNCHANGED <<fs, decided>>
    /\ UNCHANGED <<config, idx, sourcefile, original, size1, size2, tot1, tot2,
                   mi, tempdirs, stdout, procs>>

\* ----------------------------------------- single-file optimizers (68-95)
\* An external tool run as tool ... src dst: it leaves a file at dst, or (it
\* failed, or could not read src) nothing.
ToolResults(f) == {f} \cup {WriteFile(f, dest, w) :
                                w \in Written(dest, f[backup_source])}

RunTool(name, at) ==
    /\ pc = at
    /\ IF name \in UTIL_EXE
       THEN /\ procs' = Append(procs, [exe |-> name, src |-> <<backup_source>>,
                                        dst |-> <<dest>>])
            /\ fs' \in ToolResults(fs)
       ELSE UNCHANGED <<fs, procs>>
    /\ pc' = "stat_dest"
    /\ UNCHANGED <<config, idx, sourcefile, original, size1, size2, tot1, tot2,
                   decided, mi, tempdirs, stdout, exc>>

optimize_png == RunTool("optipng", "optimize_png")

optimize_jpg == RunTool("jpegtran", "optimize_jpg")

h5repack == RunTool("h5repack", "h5repack")


\* ------------------------------------------------ archive strategies (98-166)
\* zipfile reading the source archive: it is a ZIP archive, or it is not
\* (BadZipFile).
ReadZip == {"ok", "BadZipFile"}

\* lines 139-143: repack_zip without 7z.  Line 140 opens the source before
\* line 141 creates the destination.
repack_zip_builtin ==
    /\ pc = "repack_zip"
    /\ "7z" \notin UTIL_EXE
    /\ \E r \in ReadZip :
         IF r = "ok"
         THEN /\ \E w \in Written(dest, fs[backup_source]) :
                   fs' = WriteFile(fs, dest, w)
              /\ pc' = "stat_dest"
              /\ exc' = exc
         ELSE /\ Raise(r)
              /\ fs' = fs
    /\ UNCHANGED <<config, idx, sourcefile, original, size1, size2, tot1, tot2,
                   decided, mi, tempdirs, stdout, procs>>

\* The strategies that enter "with UnpackedZip(sourcename)": repack_ooxml
\* always (line 148), repack_zip when 7z is available (lines 136-137).
UsesUnpackedZip ==
    IF pc = "repack_ooxml" THEN TRUE
    ELSE IF pc = "repack_zip" THEN "7z" \in UTIL_EXE
    ELSE FALSE

\* lines 103-107: __enter__ makes the directory, then extracts into it.  An
\* exception raised by __enter__ leaves the with statement without a call of
\* __exit__.
UnpackedZip_enter ==
    /\ UsesUnpackedZip
    /\ tempdirs' = tempdirs + 1
    /\ \E r \in ReadZip :
         IF r = "ok"
         THEN /\ pc' = IF pc = "repack_ooxml" THEN "ooxml_media"
                       ELSE "repack_folder"
              /\ exc' = exc
         ELSE Raise(r)
    /\ UNCHANGED <<config, fs, idx, sourcefile, original, size1, size2, tot1,
                   tot2, decided, mi, stdout, procs>>

\* lines 149-164: the media directory is looked up by the extension of
\* sourcename, which is backup_source with the case the file name has; then
\* optipng (one call on <media>/*.png) and jpegtran (the calls on the JPEG
\* files of the media directory, recorded as one) work on the extracted media.
repack_ooxml_media ==
    /\ pc = "ooxml_media"
    /\ LET ext == backup_source.ext IN
       IF ext \in DOMAIN OOXML_MEDIA
       THEN /\ procs' = procs
                  \o (IF "optipng" \in UTIL_EXE
                      THEN <<[exe |-> "optipng", src |-> <<OOXML_MEDIA[ext]>>,
                              dst |-> <<OOXML_MEDIA[ext]>>]>>
                      ELSE <<>>)
                  \o (IF "jpegtran" \in UTIL_EXE
                      THEN <<[exe |-> "jpegtran", src |-> <<OOXML_MEDIA[ext]>>,
                              dst |-> <<OOXML_MEDIA[ext]>>]>>
                      ELSE <<>>)
            /\ pc' = "repack_folder"
            /\ exc' = exc
       ELSE /\ exc' = "KeyError"
            /\ pc' = "exit"
            /\ procs' = procs
    /\ UNCHANGED <<config, fs, idx, sourcefile, original, size1, size2, tot1,
                   tot2, decided, mi, tempdirs, stdout>>

\* lines 113-131: 7z builds dst (or fails and leaves nothing); without 7z the
\* zipfile module writes it.
repack_folder ==
    /\ pc = "repack_folder"
    /\ IF "7z" \in UTIL_EXE
       THEN /\ procs' = Append(procs, [exe |-> "7z", src |-> <<>>,
                                        dst |-> <<dest>>])
            /\ fs' \in ToolResults(fs)
       ELSE /\ procs' = procs
            /\ \E w \in Written(dest, fs[backup_source]) :
                 fs' = WriteFile(fs, dest, w)
    /\ pc' = "exit"
    /\ UNCHANGED <<config, idx, sourcefile, original, size1, size2, tot1, tot2,
                   decided, mi, tempdirs, stdout, exc>>

\* lines 109-110: __exit__ removes the directory; an exception of the body
\* goes on.
UnpackedZip_exit ==
    /\ pc = "exit"
    /\ tempdirs' = tempdirs - 1
    /\ pc' = IF exc = "none" THEN "stat_dest" ELSE "raised"
    /\ UNCHANGED <<config, fs, idx, sourcefile, original, size1, size2, tot1,
                   tot2, decided, mi, stdout, procs, exc>>

\* ------------------------------------------------ compare (225-240)
\* lines 225-229
stat_dest ==
    /\ pc = "stat_dest"
    /\ IF ~Exists(fs, dest)
       THEN /\ Raise("FileNotFoundError")
            /\ UNCHANGED <<size2, tot1, tot2, stdout>>
       ELSE LET s2 == fs[dest].size IN
            /\ size2' = s2
            /\ IF verbose
               THEN /\ tot1' = tot1 + size1
                    /\ tot2' = tot2 + s2
                    /\ IF SummaryRaises(size1)
                       THEN /\ Raise("ZeroDivisionError")
                            /\ stdout' = stdout
                       ELSE /\ stdout' = Append(stdout,
                                                SummaryLine(sourcefile, size1, s2))
                            /\ pc' = "compare"
                            /\ exc' = exc
               ELSE /\ pc' = "compare"
                    /\ UNCHANGED <<tot1, tot2, stdout, exc>>
    /\ UNCHANGED <<config, fs, idx, sourcefile, original, size1, decided, mi,
                   tempdirs, procs>>

\* A comparison that lets a new file of equal size stay.
NotSmaller_strict(s1, s2) == s1 < s2

\* line 231: the new file is not strictly smaller
NotSmaller(s1, s2) == s1 <= s2

\* line 233: os.remove(destfile)
restore_remove ==
    /\ pc = "compare"
    /\ NotSmaller(size1, size2)
    /\ fs' = Remove(fs, dest)
    /\ pc' = "restore_rename"
    /\ UNCHANGED <<config, idx, sourcefile, original, size1, size2, tot1, tot2,
                   decided, mi, tempdirs, stdout, procs, exc>>

\* lines 234-235: os.rename(backup_source, destfile); tot2 += size1 - size2
restore_rename ==
    /\ pc = "restore_rename"
    /\ fs' = RenameFile(fs, backup_source, dest)
    /\ tot2' = tot2 + size1 - size2
    /\ decided' = "restore"
    /\ pc' = "cleanup"
    /\ UNCHANGED <<config, idx, sourcefile, original, size1, size2, tot1, mi,
                   tempdirs, stdout, procs, exc>>

\* lines 236-237: the new file stays; copystat under preserve
keep_new ==
    /\ pc = "compare"
    /\ ~NotSmaller(size1, size2)
    /\ fs' = IF preserve THEN CopyStat(fs, backup_source, dest) ELSE fs
    /\ decided' = "keep_new"
    /\ pc' = "cleanup"
    /\ UNCHANGED <<config, idx, sourcefile, original, size1, size2, tot1, tot2,
                   mi, tempdirs, stdout, procs, exc>>

\* A cleanup that deletes the backup when keep is set.
DeletesBackup_inverted(k, f, b) == k /\ Exists(f, b)

\* line 239: the backup is deleted
DeletesBackup(k, f, b) == ~k /\ Exists(f, b)

\* lines 239-240
cleanup ==
    /\ pc = "cleanup"
    /\ fs' = IF DeletesBackup(keep, fs, backup_source)
             THEN Remove(fs, backup_source) ELSE fs
    /\ pc' = "loop"
    /\ UNCHANGED <<config, idx, sourcefile, original, size1, size2, tot1, tot2,
                   decided, mi, tempdirs, stdout, procs, exc>>

\* lines 242-243: the label is the loop variable, unbound when glob matched
\* nothing; the ratio divides by tot1.
summary ==
    /\ pc = "summary"
    /\ IF ~verbose
       THEN /\ pc' = "done"
            /\ UNCHANGED <<stdout, exc>>
       ELSE IF sourcefile = <<>>
       THEN /\ Raise("UnboundLocalError")
            /\ stdout' = stdout
       ELSE IF SummaryRaises(tot1)
       THEN /\ Raise("ZeroDivisionError")
            /\ stdout' = stdout
       ELSE /\ stdout' = Append(stdout, SummaryLine(sourcefile, tot1, tot2))
            /\ pc' = "done"
            /\ exc' = exc
    /\ UNCHANGED <<config, fs, idx, sourcefile, original, size1, size2, tot1,
                   tot2, decided, mi, tempdirs, procs>>

Next ==
    \/ NextFile
    \/ LoopEnd
    \/ tar2zip_open
    \/ tar2zip_member
    \/ tar2zip_close
    \/ alt_type
    \/ rename_to_backup
    \/ optimize_png
    \/ optimize_jpg
    \/ h5repack
    \/ repack_zip_builtin
    \/ UnpackedZip_enter
    \/ repack_ooxml_media
    \/ repack_folder
    \/ UnpackedZip_exit
    \/ stat_dest
    \/ restore_remove
    \/ restore_rename
    \/ keep_new
    \/ cleanup
    \/ summary

Spec == Init /\ [][Next]_vars


\* ================================================================ claims
\* The files the for loop has already taken from matches.
Visited == {matches[i] : i \in 1 .. idx - 1}

\* The file object line 198 saw at sourcefile is now at name p.
OriginalAt(p) == Exists(fs, p) /\ fs[p] = original[1]

\* Name p holds the bytes the original had.
OriginalBytesAt(p) == Exists(fs, p) /\ Data(fs[p]) = Data(original[1])

\* lines 231-237 have decided for sourcefile
Decided == decided \in {"restore", "keep_new"}

\* C1: once the backup/compare step of a file whose strategy left an output
\* that is not strictly smaller (size1 <= size2) is over, the original path
\* holds exactly the bytes the original had.
C1_RestoreKeepsOriginal ==
    (Decided /\ size1 <= size2) => OriginalBytesAt(Src)

C1_Witness ==
    /\ pc = "loop"
    /\ decided = "restore"
    /\ size1 < size2
    /\ OriginalBytesAt(Src)

\* C2: when the strategy raises or leaves no output at the original path, the
\* backup is renamed back: whenever the run has left the backup/compare step
\* of a file, by an exception too, the original is at the original path.
C2_RestoredWhenStrategyFails ==
    (decided = "pending" /\ pc = "raised") => OriginalBytesAt(Src)

C4_BackupIffKeptAndSmaller ==
    (Decided /\ pc \in {"loop", "summary", "done"})
       => /\ Exists(fs, backup_source) <=> (keep /\ size2 < size1)
          /\ Exists(fs, Src)

C4_Witness ==
    /\ pc = "loop"
    /\ decided = "keep_new"
    /\ ~keep
    /\ ~Exists(fs, backup_source)
    /\ Exists(fs0, backup_source)

\* C5: no scratch directory outlives the repack call that made it: outside
\* the body of "with UnpackedZip(...)" none is on disk.
C5_NoScratchDirectoryLeft ==
    pc \notin {"ooxml_media", "repack_folder", "exit"} => tempdirs = 0

\* C6: whatever the glob matched, repack_files does not raise, and an
\* unsupported file is neither modified nor named on a summary line.
C6_CompletesForEveryMatchSet ==
    /\ pc # "raised"
    /\ \A p \in Visited :
         Lower(p.ext) \notin ACCEPTED_TYPES(UTIL_EXE)
            => /\ Exists(fs, p)
               /\ fs[p] = fs0[p]
               /\ \A i \in 1 .. Len(stdout) : stdout[i].label # <<p>>

\* C7: a file whose extension is not all lower case gets the strategy of the
\* lower-case extension and the strategy runs as for it: the media directory
\* of an OOXML file is found whatever the case of its extension.
C7_ExtensionCaseInsensitive ==
    /\ pc = "ooxml_media" => backup_source.ext \in DOMAIN OOXML_MEDIA
    /\ ~(decided = "pending" /\ exc = "KeyError")

\* C8: tar2zip completes for every TAR; the ZIP then has one entry per
\* member, in the same order with the same contents; the TAR stays as it was
\* and no backup of it is made.
C8_TarConverted ==
    mi > 0 =>
       /\ exc \notin {"AttributeError", "KeyError"}
       /\ OriginalAt(Src)
       /\ Exists(fs, backup_source) => (Exists(fs0, backup_source)
                                         /\ fs[backup_source] = fs0[backup_source])
       /\ pc \in {"loop", "summary", "done"}
            => fs[ZipName(Src)].members = fs[Src].members

\* C9: for a matched BMP/GIF/TIFF file with optipng available exactly one
\* process is started, optipng on that file, and the loop goes on.
C9_AltTypeRunsOptipng ==
    (/\ sourcefile # <<>>
     /\ Lower(Src.ext) \in OPTIPNG_ALT_TYPE
     /\ "optipng" \in UTIL_EXE
     /\ pc # "alt")
       => /\ pc # "raised"
          /\ Len(procs) > 0
          /\ procs[Len(procs)].exe = "optipng"
          /\ procs[Len(procs)].src = <<Src>>

\* C10: a file of the directory that the loop has not taken is never
\* overwritten or deleted: processing F changes no file but F.
C10_OtherFilesUntouched ==
    \A p \in DOMAIN fs0 \ Visited : Exists(fs, p) /\ fs[p] = fs0[p]

====
